---------------------------- MODULE Spec2Model ----------------------------
(***************************************************************************)
(* The kernel heap allocator of reedos (src/vm/vmalloc.rs): Header, Zone   *)
(* and Kalloc, over a byte-addressed memory of machine words.              *)
(*                                                                         *)
(* Memory is a sparse map from addresses to words.  A word that is not in  *)
(* the map has the value `fill`: the content of memory Kalloc never wrote  *)
(* (the payload of its own pages, and every page it does not own).  Kalloc *)
(* reads such words when a chunk ends at the page boundary, so `fill` is   *)
(* chosen among ForeignWords in Init and every word Kalloc did not write   *)
(* reads as that value.                                                    *)
(***************************************************************************)
EXTENDS Integers, Sequences, FiniteSets, TLC

\* ------------------------------------------------------------------------
\* Program constants
\* ------------------------------------------------------------------------
PAGE_SIZE == 4096

MAX_CHUNK_SIZE == 4080

HEADER_SIZE == 8

ZONE_SIZE == 8

HEADER_USED == 4096

SIZE_MASK == 4095

MAX_REFS == 510

\* ------------------------------------------------------------------------
\* Bounds of the model
\* ------------------------------------------------------------------------
\* Pointers the client may hold at once (alloc is not called beyond it).
MaxLive == 3

\* Calls of alloc and free in one run.
MaxCalls == 6

\* The page handed to Kalloc::new, and the pages of the page pool.  One pool
\* page lies below the head page, one directly above it, one further up.
HeadPage == 2 * PAGE_SIZE

PoolPages == {1 * PAGE_SIZE, 3 * PAGE_SIZE, 5 * PAGE_SIZE}

\* Request sizes: 0, the granularity 8, a size that is not a multiple of 8,
\* the size that leaves an empty chunk at the page end, and the maximal size.
Sizes == {0, 8, 30, 4072, 4080}

\* Values of the words Kalloc never wrote: zeroed memory, a small number
\* (a free Header of size 8, or a Zone with 8 refs), and a word with bit 12
\* set (a used Header of size 0, or a Zone whose next is page 1).
ForeignWords == {0, 8, 4096}

VARIABLES
    mem,      \* the words Kalloc wrote that differ from fill
    fill,     \* the value of every other word
    kalloc,   \* the Kalloc struct: [head, end]
    pool,     \* pages the page pool can still hand out
    live,     \* pointers returned by alloc and not freed since
    panic,    \* "none", or the fatal diagnostic that halted the kernel
    calls,    \* the number of calls made so far
    last,     \* what the last call did and returned
    harts     \* for each hart, where it is in the call it is making

vars == <<mem, fill, kalloc, pool, live, panic, calls, last, harts>>

\* ------------------------------------------------------------------------
\* Machine words: usize as a natural number.  A mask of the low n bits is a
\* remainder modulo 2^n; a | b is computed bit by bit, sixteen bits at a
\* time.
\* ------------------------------------------------------------------------
\* Bit i of a | b, at its place value
OrBit(a, b, i) ==
    IF (a \div 2^i) % 2 = 1 \/ (b \div 2^i) % 2 = 1 THEN 2^i ELSE 0

\* The low four bits of (a | b) >> i, at their place value
OrNibble(a, b, i) ==
    (OrBit(a, b, i) + OrBit(a, b, i + 1))
        + (OrBit(a, b, i + 2) + OrBit(a, b, i + 3))

RECURSIVE BitOr(_, _)
BitOr(a, b) ==
    IF a = 0 THEN b
    ELSE IF b = 0 THEN a
    ELSE (OrNibble(a, b, 0) + OrNibble(a, b, 4))
         + ((OrNibble(a, b, 8) + OrNibble(a, b, 12))
            + 65536 * BitOr(a \div 65536, b \div 65536))

\* ------------------------------------------------------------------------
\* The machine a call runs on: memory, the page pool, and what the call did.
\*   mem     the memory
\*   oob     the first address the call read or wrote outside the pages
\*           Kalloc owns (0: none), oobw the first such address it wrote
\*   pool    the free pages of the page pool
\*   pallocs the number of palloc() calls, pfrees the pages given to pfree()
\*   panic   "none" or the diagnostic of the panic that ended the call
\* ------------------------------------------------------------------------
Machine(m, p) ==
    [mem |-> m, oob |-> 0, oobw |-> 0, pool |-> p, pallocs |-> 0,
     pfrees |-> <<>>, panic |-> "none"]

\* Memory nothing was written to
EmptyMem == [a \in {} |-> 0]

\* src.read()
Load(m, a) == IF a \in DOMAIN m THEN m[a] ELSE fill

\* dest.write(v)
Store(m, a, v) ==
    IF v = fill THEN [x \in DOMAIN m \ {a} |-> m[x]] @@ EmptyMem
    ELSE (a :> v) @@ m

\* The pages Kalloc owns: those not in the page pool
Owned(p) == ({HeadPage} \cup PoolPages) \ p

PageOf(a) == a - (a % PAGE_SIZE)

\* A read of address a
Touch(s, a) ==
    IF s.oob = 0 /\ PageOf(a) \notin Owned(s.pool)
    THEN [s EXCEPT !.oob = a] ELSE s

\* A write of v to address a
Write(s, a, v) ==
    [Touch(s, a) EXCEPT !.mem = Store(@, a, v),
                        !.oobw = IF @ = 0 /\ PageOf(a) \notin Owned(s.pool)
                                 THEN a ELSE @]

Panic(s, msg) == [s EXCEPT !.panic = msg]

\* ------------------------------------------------------------------------
\* Header
\* ------------------------------------------------------------------------
Header_new(size) == size

\* fields & 0xFFF
chunk_size(fields) == fields % (SIZE_MASK + 1)

\* fields & HEADER_USED == 0
is_free(fields) == (fields \div HEADER_USED) % 2 = 0

\* fields | HEADER_USED
set_used(fields) == IF is_free(fields) THEN fields + HEADER_USED ELSE fields

\* fields & !HEADER_USED
set_unused(fields) == IF is_free(fields) THEN fields ELSE fields - HEADER_USED

\* (fields & !(0x1000 - 1)) | size
set_size(fields, size) == BitOr(fields - chunk_size(fields), size)

\* Header::split: the machine after it (self's new fields are written to
\* cur_addr, the remainder's Header after the shrunk chunk).
split(s, fields, new_size, cur_addr) ==
    LET old_size == chunk_size(fields)
        next_size == old_size - new_size
        self == set_size(fields, new_size)
        s1 == Write(s, cur_addr, self)
        next_addr == cur_addr + HEADER_SIZE + new_size
    IN IF next_size - HEADER_SIZE < 0
       THEN Panic(s1, "attempt to subtract with overflow")
       ELSE Write(s1, next_addr, next_size - HEADER_SIZE)

\* Header::merge: self's new fields; the absorbed Header's word is zeroed.
merge_fields(fields, next) ==
    set_size(fields, chunk_size(fields) + HEADER_SIZE + chunk_size(next))

\* C16, a merge that zeroes the word behind the absorbed Header as well
merge_zeroing_two_words(s, next_addr) ==
    Write(Write(s, next_addr, 0), next_addr + HEADER_SIZE, 0)

merge(s, next_addr) == Write(s, next_addr, 0)

\* ------------------------------------------------------------------------
\* Zone: a view [base, next] of a page's first word, read once by from()
\* ------------------------------------------------------------------------
Zone_new(base) == [base |-> base, next |-> 0]

Zone_from(s, src) == [base |-> src, next |-> Load(s.mem, src)]

\* next & 4095
get_refs(zone) == zone.next % (4095 + 1)

\* next & !(PAGE_SIZE - 1); 0 stands for Err(NullZone)
get_next(zone) == zone.next - (zone.next % PAGE_SIZE)

write_refs(s, zone, new_count) ==
    Write(s, zone.base, BitOr(get_next(zone), new_count))

write_next(s, zone, new_next) ==
    Write(s, zone.base, BitOr(new_next, get_refs(zone)))

\* [s, err]: err is "MaxRefs" or "none"
increment_refs(s, zone) ==
    LET new_count == get_refs(zone) + 1
    IN IF new_count > MAX_REFS
       THEN [s |-> s, err |-> "MaxRefs"]
       ELSE [s |-> write_refs(s, zone, new_count), err |-> "none"]

\* [s, err, count]: err is "MinRefs" or "none"
decrement_refs(s, zone) ==
    LET new_count == get_refs(zone) - 1
    IN IF new_count < 0
       THEN [s |-> s, err |-> "MinRefs", count |-> 0]
       ELSE [s |-> write_refs(s, zone, new_count), err |-> "none",
             count |-> new_count]

\* [s, z]: z is the next Zone, or NoZone for Err(NullZone)
NoZone == [base |-> 0, next |-> 0]

next_zone(s, zone) ==
    IF get_next(zone) # 0
    THEN [s |-> Touch(s, get_next(zone)), z |-> Zone_from(s, get_next(zone))]
    ELSE [s |-> s, z |-> NoZone]

\* ------------------------------------------------------------------------
\* The page pool (vm/palloc.rs), as the allocator uses it
\* ------------------------------------------------------------------------
\* palloc() handing out `page`; page 0 stands for Err(OutOfPages).
palloc(s, page) ==
    [s EXCEPT !.pallocs = @ + 1, !.pool = @ \ {page}]

\* What palloc() may return in a pool with free pages `p`
PallocOutcomes(p) == IF p = {} THEN {0} ELSE p

pfree(s, page) ==
    [s EXCEPT !.pfrees = Append(@, page), !.pool = @ \cup {page}]

\* Zone::free_self
free_self(s, self, prev_zone) ==
    IF get_refs(self) # 0
    THEN Panic(s, "assertion failed: self.get_refs() == 0")
    ELSE LET nz == next_zone(s, self)
         IN pfree(write_next(nz.s, prev_zone, nz.z.base), self.base)

\* C12, an alloc_chunk that splits whether or not the request fills the chunk
alloc_chunk_always_splits(s, size, ptr, zone, head) ==
    LET inc == increment_refs(s, zone)
        used == set_used(head)
        s1 == Write(inc.s, ptr, used)
    IN IF inc.err # "none"
       THEN Panic(s, "Maximum zone allocation limit exceeded.")
       ELSE split(s1, used, size, ptr)

\* alloc_chunk(size, ptr, zone, head)
alloc_chunk(s, size, ptr, zone, head) ==
    LET inc == increment_refs(s, zone)
        used == set_used(head)
        s1 == Write(inc.s, ptr, used)
    IN IF inc.err # "none"
       THEN Panic(s, "Maximum zone allocation limit exceeded.")
       ELSE IF size # chunk_size(used)
       THEN split(s1, used, size, ptr)
       ELSE s1

\* Round to a 8 byte granularity
RoundUp(size) == IF size % 8 # 0 THEN (size + 7) - ((size + 7) % 8) ELSE size

\* The one value of a singleton set
Only(S) == CHOOSE x \in S : TRUE

\* One pass of the while loop of Zone::scan (none once the loop has ended).
\* l holds the machine s and the loop's curr and head; once the loop has
\* ended, done is TRUE (the alloc_chunk call of the returning pass is made
\* by scan below, on the chunk the loop ended at) and
\* [some, ptr, at, c, pre] is its result: some is FALSE for None; else ptr
\* is the address returned, at the Header the request was placed in, c that
\* chunk's size and pre the memory when alloc_chunk was called.
scan_step(l, zone, size) ==
    IF l.done THEN l
    ELSE IF ~(l.curr < zone.base + PAGE_SIZE)
    THEN [l EXCEPT !.done = TRUE, !.some = FALSE, !.pre = l.s.mem]
    ELSE IF chunk_size(l.head) < size \/ ~is_free(l.head)
    THEN LET prev == l.head
             trail == l.curr
             curr == l.curr + HEADER_SIZE + chunk_size(l.head)
             s1 == Touch(l.s, curr)
             head == Load(l.s.mem, curr)
             merged == merge_fields(prev, head)
         IN IF is_free(prev) /\ is_free(head)
            THEN [l EXCEPT !.s = Write(merge(s1, curr), trail, merged),
                           !.curr = trail, !.head = merged]
            ELSE [l EXCEPT !.s = s1, !.curr = curr, !.head = head]
    ELSE [l EXCEPT !.done = TRUE, !.some = TRUE,
                   !.ptr = l.curr + HEADER_SIZE, !.at = l.curr,
                   !.c = chunk_size(l.head), !.pre = l.s.mem]

\* The while loop, run in stretches of LoopStretch passes, each stretch as
\* two halves, so that the evaluation stays shallow however long the loop
\* runs.
LoopStretch == 256

RECURSIVE scan_passes(_, _, _, _)
scan_passes(l, zone, size, n) ==
    IF n = 1 \/ l.done THEN scan_step(l, zone, size)
    ELSE CHOOSE r \in {scan_passes(m, zone, size, n - (n \div 2)) :
                         m \in {scan_passes(l, zone, size, n \div 2)}} : TRUE

RECURSIVE scan_loop(_, _, _)
scan_loop(l, zone, size) ==
    IF l.done THEN l
    ELSE Only({scan_loop(m, zone, size) :
                 m \in {scan_passes(l, zone, size, LoopStretch)}})

\* Zone::scan: the loop, then the alloc_chunk call of the pass that returns
scan(s, zone, size) ==
    Only({IF r.some
          THEN [r EXCEPT !.s = alloc_chunk(r.s, RoundUp(size), r.at, zone,
                                           r.head)]
          ELSE r :
            r \in {scan_loop([s |-> Touch(s, zone.base + 8),
                              curr |-> zone.base + 8,
                              head |-> Load(s.mem, zone.base + 8),
                              done |-> FALSE, some |-> FALSE, ptr |-> 0,
                              at |-> 0, c |-> 0, pre |-> s.mem],
                             zone, RoundUp(size))}})

\* write_zone_header_pair
write_zone_header_pair(s, zone, header) ==
    Write(Write(s, zone.base, zone.next), zone.base + 8, header)

\* Kalloc::new(start): the memory and the Kalloc it returns
Kalloc_new(s, start) ==
    [s |-> write_zone_header_pair(s, Zone_new(start), Header_new(MAX_CHUNK_SIZE)),
     k |-> [head |-> start, end |-> start + 4096]]

\* Kalloc::grow_pool, with palloc() returning `page` (0: it failed).
\* [s, ok, zone, head]
grow_pool(s, tail, page) ==
    LET s1 == palloc(s, page)
        zone == Zone_new(page)
        head == Header_new(MAX_CHUNK_SIZE)
    IN IF page = 0
       THEN [s |-> s1, ok |-> FALSE, zone |-> NoZone, head |-> 0]
       ELSE [s |-> write_zone_header_pair(write_next(s1, tail, page), zone, head),
             ok |-> TRUE, zone |-> zone, head |-> head]

\* The loop of Kalloc::shrink_pool
RECURSIVE shrink_loop(_, _, _)
shrink_loop(s, to_free, curr) ==
    LET nz == next_zone(s, curr)
    IN IF nz.z = NoZone
       THEN Panic(nz.s, "Tried to free a zone that wasn't in the list...")
       ELSE IF to_free.base = nz.z.base
       THEN free_self(nz.s, to_free, curr)
       ELSE shrink_loop(nz.s, to_free, nz.z)

\* C7, a shrink_pool that looks for the head in the list as for any zone
shrink_pool_without_head_test(s, k, to_free) ==
    shrink_loop(s, to_free, Zone_new(k.head))

\* Kalloc::shrink_pool
shrink_pool(s, k, to_free) ==
    IF to_free.base # k.head
    THEN shrink_loop(s, to_free, Zone_new(k.head))
    ELSE s

\* The zone walk of Kalloc::alloc.
\* [s, ret, ptr, at, c, pre, zone]: ret is "Ok", "NullZone" (the ? of
\* next_zone) or "none" when the loop ended without returning.
RECURSIVE alloc_loop(_, _, _, _)
alloc_loop(s, zone, end, size) ==
    IF zone.base <= end
    THEN LET sc == scan(s, zone, size)
             nz == next_zone(sc.s, zone)
         IN IF sc.some
            THEN [s |-> sc.s, ret |-> "Ok", ptr |-> sc.ptr, at |-> sc.at,
                  c |-> sc.c, pre |-> sc.pre, zone |-> zone.base]
            ELSE IF nz.z = NoZone
            THEN [s |-> nz.s, ret |-> "NullZone", ptr |-> 0, at |-> 0,
                  c |-> 0, pre |-> nz.s.mem, zone |-> 0]
            ELSE alloc_loop(nz.s, nz.z, end, size)
    ELSE [s |-> s, ret |-> "none", ptr |-> 0, at |-> 0, c |-> 0,
          pre |-> s.mem, zone |-> 0]

\* Kalloc::alloc up to the end of its while loop
alloc_walk(s, k, size) ==
    alloc_loop(Touch(s, k.head), Zone_from(s, k.head), k.end - 4096, size)

\* Kalloc::alloc after its while loop ended without returning: trail is the
\* copy of the head Zone made before the loop, `page` what palloc() returns.
alloc_grow(walk, trail, size, page) ==
    LET grown == grow_pool(walk.s, trail, page)
        ptr == grown.zone.base + ZONE_SIZE + HEADER_SIZE
    IN IF grown.ok
       THEN [s |-> alloc_chunk(grown.s, size, ptr, grown.zone, grown.head),
             ret |-> "Ok", ptr |-> ptr, at |-> ptr,
             c |-> chunk_size(grown.head), pre |-> grown.s.mem,
             zone |-> grown.zone.base]
       ELSE [s |-> grown.s, ret |-> "OutOfMemory", ptr |-> 0, at |-> 0, c |-> 0,
             pre |-> grown.s.mem, zone |-> 0]

\* Whether the walk of alloc ended in a return (Ok or the ? of next_zone)
Returned(walk) == walk.ret # "none"

\* Kalloc::alloc, given the machine s it was called on and how its walk
\* ended, with palloc() returning `page` if it is called
alloc(walk, s, k, size, page) ==
    IF Returned(walk) THEN walk
    ELSE alloc_grow(walk, Zone_from(s, k.head), size, page)

\* Kalloc::free
free(s, k, ptr) ==
    LET base == PageOf(ptr)
        zone == Zone_from(s, base)
        head_ptr == ptr - HEADER_SIZE
        head == set_unused(Load(s.mem, head_ptr))
        s1 == Touch(Touch(s, base), head_ptr)
        dec == decrement_refs(s1, zone)
        s2 == IF dec.count = 0 THEN shrink_pool(dec.s, k, zone) ELSE dec.s
        next_ptr == ptr + chunk_size(head)
        next == Load(s2.mem, next_ptr)
        s3 == Touch(s2, next_ptr)
    IN IF is_free(Load(s.mem, head_ptr))
       THEN Panic(s1, "Kalloc double free.")
       ELSE IF dec.err # "none"
       THEN Panic(dec.s, "Negative zone refs count")
       ELSE IF s2.panic # "none"
       THEN s2
       ELSE IF is_free(next)
       THEN Write(merge(s3, next_ptr), head_ptr, merge_fields(head, next))
       ELSE Write(s3, head_ptr, head)

\* ------------------------------------------------------------------------
\* The state machine: a client calling alloc and free on one Kalloc
\* ------------------------------------------------------------------------
\* What a call leaves in `last`
Outcome(op, arg, r) ==
    [op |-> op, arg |-> arg, ret |-> r.ret, ptr |-> r.ptr, at |-> r.at,
     c |-> r.c, zone |-> r.zone, pallocs |-> r.s.pallocs,
     pfrees |-> r.s.pfrees, oob |-> r.s.oob, oobw |-> r.s.oobw]

\* The harts of the machine.  In the specifications of a single client one
\* call runs at a time, from its first access to memory to its last, and
\* every hart is idle between the calls.
NHART == 2

Harts == 1..NHART

\* A hart that is in no call: pc is where it is, zone, curr, head, prev,
\* trail and rem the locals of the call, res and ret what its last call
\* returned, n the number of calls it has begun
HartIdle ==
    [pc |-> "idle", op |-> "none", arg |-> 0, size |-> 0, zone |-> NoZone,
     curr |-> 0, head |-> 0, prev |-> 0, trail |-> 0, rem |-> 0,
     res |-> "none", ret |-> 0, panic |-> "none", n |-> 0]

\* Kalloc::new on the page HeadPage; the pool holds PoolPages.
InitKalloc ==
    /\ fill \in ForeignWords
    /\ LET r == Kalloc_new(Machine(EmptyMem, PoolPages), HeadPage)
       IN /\ mem = r.s.mem
          /\ kalloc = r.k
          /\ pool = r.s.pool
          /\ last = Outcome("new", HeadPage,
                            [s |-> r.s, ret |-> "Ok", ptr |-> 0, at |-> 0,
                             c |-> 0, zone |-> HeadPage])
    /\ live = {}
    /\ panic = "none"
    /\ calls = 0

Init == InitKalloc /\ harts = [h \in Harts |-> HartIdle]

\* alloc(size), for a size the interface admits.  palloc() is asked for a
\* page only when the call reaches grow_pool.
Alloc ==
    /\ panic = "none"
    /\ calls < MaxCalls
    /\ Cardinality(live) < MaxLive
    /\ \E size \in Sizes :
       \E walk \in {alloc_walk(Machine(mem, pool), kalloc, size)} :
       \E page \in IF Returned(walk) THEN {0} ELSE PallocOutcomes(pool) :
       \E r \in {alloc(walk, Machine(mem, pool), kalloc, size, page)} :
            /\ mem' = r.s.mem
            /\ pool' = r.s.pool
            /\ panic' = r.s.panic
            /\ live' = IF r.ret = "Ok" /\ r.s.panic = "none"
                       THEN live \cup {r.ptr} ELSE live
            /\ last' = Outcome("alloc", size, r)
    /\ calls' = calls + 1
    /\ UNCHANGED <<fill, kalloc, harts>>

\* free(ptr), for a pointer alloc returned that was not freed since
Free ==
    /\ panic = "none"
    /\ calls < MaxCalls
    /\ \E ptr \in live :
       \E s \in {free(Machine(mem, pool), kalloc, ptr)} :
            /\ mem' = s.mem
            /\ pool' = s.pool
            /\ panic' = s.panic
            /\ live' = live \ {ptr}
            /\ last' = Outcome("free", ptr,
                               [s |-> s, ret |-> "Ok", ptr |-> 0, at |-> 0,
                                c |-> 0, zone |-> PageOf(ptr)])
    /\ calls' = calls + 1
    /\ UNCHANGED <<fill, kalloc, harts>>

Next == Alloc \/ Free

Spec == Init /\ [][Next]_vars

\* A client that breaks the contract of free: free(ptr) again, right after
\* free(ptr) returned
DoubleFree ==
    /\ panic = "none"
    /\ calls < MaxCalls
    /\ last.op = "free"
    /\ \E s \in {free(Machine(mem, pool), kalloc, last.arg)} :
            /\ mem' = s.mem
            /\ pool' = s.pool
            /\ panic' = s.panic
            /\ last' = Outcome("free again", last.arg,
                               [s |-> s, ret |-> "Ok", ptr |-> 0, at |-> 0,
                                c |-> 0, zone |-> PageOf(last.arg)])
    /\ calls' = calls + 1
    /\ UNCHANGED <<fill, kalloc, live, harts>>

NextDoubleFree == Next \/ DoubleFree

SpecDoubleFree == Init /\ [][NextDoubleFree]_vars

\* ------------------------------------------------------------------------
\* The same client on a Kalloc that already holds several zones.  The list
\* is laid out by the program's own operations used as they are meant to be:
\* the head page is filled by a scan, and each further page is formatted
\* and linked behind the last zone by grow_pool and given one chunk by a
\* scan of it.
\* ------------------------------------------------------------------------
\* The pages behind the head, in list order
ZoneOrders ==
    {<<a>> : a \in PoolPages}
        \cup {<<ab[1], ab[2]>> :
                ab \in {x \in PoolPages \X PoolPages : x[1] # x[2]}}

\* The size of the one chunk of each zone behind the head
ZoneChunks == {64, 4080}

\* The machine after grow_pool(tail) obtained `page` and a scan of the new
\* zone placed a chunk of `size`
LinkZone(s, tail, page, size) ==
    Only({Only({scan(g.s, Zone_from(g.s, page), size).s :
                  g \in {grow_pool(s, z, page)}}) :
            z \in {Zone_from(s, tail)}})

RECURSIVE LinkZones(_, _, _, _)
LinkZones(s, tail, order, sizes) ==
    IF order = <<>> THEN s
    ELSE Only({LinkZones(n, Head(order), Tail(order), Tail(sizes)) :
                 n \in {LinkZone(s, tail, Head(order), Head(sizes))}})

InitZones ==
    /\ fill \in ForeignWords
    /\ \E order \in ZoneOrders :
       \E sizes \in [DOMAIN order -> ZoneChunks] :
       \E r \in {Kalloc_new(Machine(EmptyMem, PoolPages), HeadPage)} :
       \E h \in {scan(r.s, Zone_from(r.s, HeadPage), MAX_CHUNK_SIZE)} :
       \E s \in {LinkZones(h.s, HeadPage, order, sizes)} :
          /\ mem = s.mem
          /\ kalloc = r.k
          /\ pool = s.pool
          /\ live = {HeadPage + 16} \cup {order[i] + 16 : i \in DOMAIN order}
          /\ calls = 1 + Len(order)
          /\ last = Outcome("new", HeadPage,
                            [s |-> Machine(s.mem, s.pool), ret |-> "Ok",
                             ptr |-> 0, at |-> 0, c |-> 0, zone |-> HeadPage])
    /\ panic = "none"
    /\ harts = [h \in Harts |-> HartIdle]

SpecZones == InitZones /\ [][Next]_vars

\* ------------------------------------------------------------------------
\* Two harts on one Kalloc, with no lock around the calls.  A step of a hart
\* is one access to memory (a read or a write of one word) together with the
\* computation on its locals that follows it, up to its next access.
\* ------------------------------------------------------------------------
\* Calls the harts make in a run, all together
MaxHartCalls == 3

\* The calls of a run when a single hart makes them, the others being parked
CallLimit ==
    IF \E h \in Harts : harts[h].pc = "parked" THEN MaxCalls ELSE MaxHartCalls

\* The number of calls the harts of H have begun
RECURSIVE CallsBegun(_)
CallsBegun(H) ==
    IF H = {} THEN 0
    ELSE LET h == CHOOSE x \in H : TRUE
         IN harts[h].n + CallsBegun(H \ {h})

\* Request sizes of the harts
HartSizes == {0, MAX_CHUNK_SIZE}

\* The hart returns from its call
Return(hr, res, ptr) == [hr EXCEPT !.pc = "idle", !.res = res, !.ret = ptr]

\* The hart panics
Halt(hr, msg) == [hr EXCEPT !.pc = "halted", !.panic = msg]

\* C18, a scan that does not move on from a chunk it cannot use
Decide_without_advance(hr) ==
    IF ~(hr.curr < hr.zone.base + PAGE_SIZE)
    THEN Return(hr, "NullZone", 0)
    ELSE IF chunk_size(hr.head) < hr.size \/ ~is_free(hr.head)
    THEN [hr EXCEPT !.pc = "advance", !.prev = hr.head, !.trail = hr.curr]
    ELSE IF get_refs(hr.zone) + 1 > MAX_REFS
    THEN Halt(hr, "Maximum zone allocation limit exceeded.")
    ELSE [hr EXCEPT !.pc = "write_refs"]

\* Zone::scan with curr and head in hand: the test of the while loop and of
\* its if, up to the next access (the read of the following Header, or the
\* write of the refs in alloc_chunk); behind the loop, alloc's next_zone()?
Decide(hr) ==
    IF ~(hr.curr < hr.zone.base + PAGE_SIZE)
    THEN IF get_next(hr.zone) = 0
         THEN Return(hr, "NullZone", 0)
         ELSE Return(hr, "NextZone", 0)
    ELSE IF chunk_size(hr.head) < hr.size \/ ~is_free(hr.head)
    THEN [hr EXCEPT !.pc = "advance", !.prev = hr.head, !.trail = hr.curr,
                    !.curr = hr.curr + HEADER_SIZE + chunk_size(hr.head)]
    ELSE IF get_refs(hr.zone) + 1 > MAX_REFS
    THEN Halt(hr, "Maximum zone allocation limit exceeded.")
    ELSE [hr EXCEPT !.pc = "write_refs"]

\* What a step of hart h leaves: its locals, memory, and the pointer it
\* returned, if it returned one
HartDoes(h, hr, m) ==
    /\ harts' = [harts EXCEPT ![h] = hr]
    /\ mem' = m
    /\ panic' = hr.panic
    /\ live' = IF hr.pc = "idle" /\ hr.op = "alloc" /\ hr.res = "Ok"
               THEN live \cup {hr.ret} ELSE live
    /\ UNCHANGED <<fill, kalloc, pool, calls, last>>

\* C17, an alloc that waits until no other hart is inside a call, as it
\* would behind a lock
HartAlloc_behind_lock(h) ==
    /\ panic = "none"
    /\ \A g \in Harts : harts[g].pc = "idle"
    /\ CallsBegun(Harts) < CallLimit
    /\ \E size \in HartSizes :
        HartDoes(h, [HartIdle EXCEPT !.pc = "head_from", !.op = "alloc",
                        !.arg = size, !.size = RoundUp(size),
                        !.zone = Zone_from([mem |-> mem], kalloc.head),
                        !.curr = kalloc.head + ZONE_SIZE,
                        !.n = harts[h].n + 1], mem)

\* alloc(size) begins: Zone::from(self.head) reads the zone word
HartAlloc(h) ==
    /\ panic = "none"
    /\ harts[h].pc = "idle"
    /\ CallsBegun(Harts) < CallLimit
    /\ \E size \in HartSizes :
        HartDoes(h, [HartIdle EXCEPT !.pc = "head_from", !.op = "alloc",
                        !.arg = size, !.size = RoundUp(size),
                        !.zone = Zone_from([mem |-> mem], kalloc.head),
                        !.curr = kalloc.head + ZONE_SIZE,
                        !.n = harts[h].n + 1], mem)

\* Zone::scan: its reads of Headers and the two writes of a merge
HartScan(h) ==
    /\ panic = "none"
    /\ \E hr \in {harts[h]} :
       \/ /\ hr.pc = "head_from"
          /\ HartDoes(h, Decide([hr EXCEPT !.head = Load(mem, hr.curr)]), mem)
       \/ /\ hr.pc = "advance"
          /\ \E next \in {Load(mem, hr.curr)} :
                IF is_free(hr.prev) /\ is_free(next)
                THEN HartDoes(h, [hr EXCEPT !.pc = "merge_zero",
                                    !.head = merge_fields(hr.prev, next)], mem)
                ELSE HartDoes(h, Decide([hr EXCEPT !.head = next]), mem)
       \/ /\ hr.pc = "merge_zero"
          /\ HartDoes(h, [hr EXCEPT !.pc = "merge_write"],
                      Store(mem, hr.curr, 0))
       \/ /\ hr.pc = "merge_write"
          /\ HartDoes(h, Decide([hr EXCEPT !.curr = hr.trail]),
                      Store(mem, hr.trail, hr.head))

\* alloc_chunk: the write of the refs, of the used Header, and the two
\* writes of Header::split
HartPlace(h) ==
    /\ panic = "none"
    /\ \E hr \in {harts[h]} :
       \/ /\ hr.pc = "write_refs"
          /\ HartDoes(h, [hr EXCEPT !.pc = "write_used",
                                    !.head = set_used(hr.head)],
                      Store(mem, hr.zone.base,
                            BitOr(get_next(hr.zone), get_refs(hr.zone) + 1)))
       \/ /\ hr.pc = "write_used"
          /\ HartDoes(h, IF hr.size # chunk_size(hr.head)
                         THEN [hr EXCEPT !.pc = "split_self"]
                         ELSE Return(hr, "Ok", hr.curr + HEADER_SIZE),
                      Store(mem, hr.curr, hr.head))
       \/ /\ hr.pc = "split_self"
          /\ \E self \in {set_size(hr.head, hr.size)} :
             \E next_size \in {chunk_size(hr.head) - hr.size} :
                HartDoes(h, IF next_size - HEADER_SIZE < 0
                            THEN Halt(hr, "attempt to subtract with overflow")
                            ELSE [hr EXCEPT !.pc = "split_next", !.head = self,
                                            !.rem = next_size - HEADER_SIZE],
                         Store(mem, hr.curr, self))
       \/ /\ hr.pc = "split_next"
          /\ HartDoes(h, Return(hr, "Ok", hr.curr + HEADER_SIZE),
                      Store(mem, hr.curr + HEADER_SIZE + hr.size, hr.rem))

\* free(ptr) begins, for a pointer alloc returned that no hart freed since:
\* Zone::from reads the zone word at the masked pointer
HartFree(h) ==
    /\ panic = "none"
    /\ harts[h].pc = "idle"
    /\ CallsBegun(Harts) < CallLimit
    /\ \E ptr \in live :
        /\ harts' = [harts EXCEPT ![h] =
                        [HartIdle EXCEPT !.pc = "free_head", !.op = "free",
                            !.arg = ptr,
                            !.zone = Zone_from([mem |-> mem], PageOf(ptr)),
                            !.curr = ptr - HEADER_SIZE,
                            !.n = harts[h].n + 1]]
        /\ live' = live \ {ptr}
    /\ UNCHANGED <<mem, fill, kalloc, pool, panic, calls, last>>

\* The rest of free: the read of the Header, the write of the refs, the read
\* of the following Header, the write that zeroes it, the write of the Header
HartRelease(h) ==
    /\ panic = "none"
    /\ \E hr \in {harts[h]} :
       \/ /\ hr.pc = "free_head"
          /\ \E head \in {Load(mem, hr.curr)} :
                HartDoes(h, IF is_free(head)
                            THEN Halt(hr, "Kalloc double free.")
                            ELSE IF get_refs(hr.zone) - 1 < 0
                            THEN Halt(hr, "Negative zone refs count")
                            ELSE [hr EXCEPT !.pc = "free_refs",
                                            !.head = set_unused(head)],
                         mem)
       \/ /\ hr.pc = "free_refs"
          /\ HartDoes(h, IF get_refs(hr.zone) - 1 = 0
                            /\ hr.zone.base # kalloc.head
                         THEN Halt(hr, "Tried to free a zone that wasn't in the list...")
                         ELSE [hr EXCEPT !.pc = "free_next"],
                      Store(mem, hr.zone.base,
                            BitOr(get_next(hr.zone), get_refs(hr.zone) - 1)))
       \/ /\ hr.pc = "free_next"
          /\ \E next \in {Load(mem, hr.arg + chunk_size(hr.head))} :
                HartDoes(h, IF is_free(next)
                            THEN [hr EXCEPT !.pc = "free_zero",
                                        !.trail = hr.arg + chunk_size(hr.head),
                                        !.head = merge_fields(hr.head, next)]
                            ELSE [hr EXCEPT !.pc = "free_write"],
                         mem)
       \/ /\ hr.pc = "free_zero"
          /\ HartDoes(h, [hr EXCEPT !.pc = "free_write"],
                      Store(mem, hr.trail, 0))
       \/ /\ hr.pc = "free_write"
          /\ HartDoes(h, Return(hr, "Ok", 0), Store(mem, hr.curr, hr.head))

\* A step of hart h
HartStep(h) ==
    HartAlloc(h) \/ HartScan(h) \/ HartPlace(h) \/ HartFree(h) \/ HartRelease(h)

NextHarts == \E h \in Harts : HartStep(h)

\* One hart alone, the others parked: it goes on with the call it is in
\* until the call returns or panics
InitOneHart ==
    /\ InitKalloc
    /\ harts = [h \in Harts |->
                    IF h = 1 THEN HartIdle ELSE [HartIdle EXCEPT !.pc = "parked"]]

NextOneHart == HartStep(1)

SpecOneHart == InitOneHart /\ [][NextOneHart]_vars /\ WF_vars(NextOneHart)

\* The harts start on the fresh Kalloc, in the runs where no word behind the
\* page reads as a free Header: what breaks here breaks by interleaving alone
InitHarts == Init /\ ~is_free(fill)

SpecHarts == InitHarts /\ [][NextHarts]_vars

\* ------------------------------------------------------------------------
\* What memory holds, read as the allocator reads it
\* ------------------------------------------------------------------------
\* The refs count and the next pointer in the first word of the page at base
RefsAt(m, base) == get_refs(Zone_from([mem |-> m], base))

NextAt(m, base) == get_next(Zone_from([mem |-> m], base))

\* The Headers of the page at base: the walk from base + 8 by steps of
\* header size + chunk size, as scan makes it.  [a, hs]: hs the addresses of
\* the Headers met before the page end, a the address the walk ends at.
WalkStep(w, m, end) ==
    IF w.a >= end THEN w
    ELSE [a |-> w.a + HEADER_SIZE + chunk_size(Load(m, w.a)),
          hs |-> w.hs \cup {w.a}]

RECURSIVE WalkPasses(_, _, _, _)
WalkPasses(w, m, end, n) ==
    IF n = 1 \/ w.a >= end THEN WalkStep(w, m, end)
    ELSE CHOOSE r \in {WalkPasses(v, m, end, n - (n \div 2)) :
                         v \in {WalkPasses(w, m, end, n \div 2)}} : TRUE

RECURSIVE WalkLoop(_, _, _)
WalkLoop(w, m, end) ==
    IF w.a >= end THEN w
    ELSE Only({WalkLoop(v, m, end) : v \in {WalkPasses(w, m, end, LoopStretch)}})

Walk(m, base) == WalkLoop([a |-> base + 8, hs |-> {}], m, base + PAGE_SIZE)

\* The Headers of the page at base whose used bit is set
UsedHeaders(m, base) == {a \in Walk(m, base).hs : ~is_free(Load(m, a))}

\* The zones reachable from head, in list order (the walk stops at the 0
\* sentinel, and at a zone it has met already)
RECURSIVE ZoneListFrom(_, _, _)
ZoneListFrom(m, base, seen) ==
    IF base = 0 \/ base \in seen THEN <<>>
    ELSE <<base>> \o ZoneListFrom(m, NextAt(m, base), seen \cup {base})

ZoneList(m, head) == ZoneListFrom(m, head, {})

Zones(m, head) == {ZoneList(m, head)[i] : i \in DOMAIN ZoneList(m, head)}

\* The payload region of the chunk whose Header is at a: [a + 8, ChunkEnd)
ChunkEnd(m, a) == a + HEADER_SIZE + chunk_size(Load(m, a))

\* The size the free chunk at a has once every free chunk that follows it in
\* the page is coalesced into it: it then reaches to the next used Header, or
\* to where the walk of the page ends
RunEnd(m, base, a) ==
    LET w == Walk(m, base)
        stops == {x \in w.hs : x > a /\ ~is_free(Load(m, x))} \cup {w.a}
    IN CHOOSE x \in stops : \A y \in stops : x <= y

RunSize(m, base, a) == RunEnd(m, base, a) - a - HEADER_SIZE

\* The Headers of the page at base where a request of `size` bytes fits
Fits(m, base, size) ==
    {a \in Walk(m, base).hs :
        is_free(Load(m, a)) /\ RunSize(m, base, a) >= size}

\* A call of `op` has just returned (or panicked)
Called(op) == last'.op = op /\ calls' = calls + 1

\* ------------------------------------------------------------------------
\* Claims
\* ------------------------------------------------------------------------

\* C1: at every quiescent point, the payload region of every chunk marked
\* used in a zone lies inside the zone's page, between base + 16 and
\* base + 4096, and the payload regions of two used chunks never overlap.
C1_UsedChunksInsidePage ==
    panic = "none" =>
        \A z \in Zones(mem, kalloc.head) :
        \A a \in UsedHeaders(mem, z) :
            /\ z + ZONE_SIZE + HEADER_SIZE <= a + HEADER_SIZE
            /\ ChunkEnd(mem, a) <= z + PAGE_SIZE
            /\ \A b \in UsedHeaders(mem, z) \ {a} :
                    \/ ChunkEnd(mem, a) <= b + HEADER_SIZE
                    \/ ChunkEnd(mem, b) <= a + HEADER_SIZE

\* C2: at every quiescent point, the refs count of every zone reachable from
\* the head equals the number of Headers of its page that are marked used.
C2_RefsCountUsedHeaders ==
    panic = "none" =>
        \A z \in Zones(mem, kalloc.head) :
            RefsAt(mem, z) = Cardinality(UsedHeaders(mem, z))

\* C3: at every quiescent point, the walk of the Headers of every zone, by
\* steps of 8 + chunk size from base + 8, lands exactly on base + 4096: the
\* zone word and the chunks with their Headers tile the page.
C3_ChunksTilePage ==
    panic = "none" =>
        \A z \in Zones(mem, kalloc.head) :
            Walk(mem, z).a = z + PAGE_SIZE

\* C4: when no zone reachable from the head holds a free chunk the rounded
\* request fits in (the head alone, full, included), alloc calls palloc
\* exactly once, and returns Ok with an address inside the page palloc gave,
\* or Err(OutOfMemory) when palloc had no page.  (Stated for the runs where
\* the memory behind a page does not read as a free Header, so that a fit is
\* a fit inside the zones.)
C4_GrowsWhenNothingFits ==
    [][(/\ Called("alloc")
        /\ ~is_free(fill)
        /\ \A z \in Zones(mem, kalloc.head) :
                Fits(mem, z, RoundUp(last'.arg)) = {})
       => /\ last'.pallocs = 1
          /\ \/ /\ last'.ret = "Ok"
                /\ PageOf(last'.ptr) \in pool \ pool'
             \/ /\ last'.ret = "OutOfMemory"
                /\ pool = {}]_vars

\* C5: alloc returns Ok or Err(OutOfMemory) and nothing else; the NullZone it
\* meets at the end of the zone list is never the caller's result.
C5_AllocReturnsOkOrOutOfMemory ==
    last.op = "alloc" => last.ret \in {"Ok", "OutOfMemory"}

\* The zone whose next pointer is z
Pred(m, head, z) == CHOOSE p \in Zones(m, head) : NextAt(m, p) = z

C8_DoubleFreeCaught ==
    [][Called("free again")
        => panic' = "Kalloc double free." /\ mem' = mem]_vars

\* The smallest address of a nonempty set of addresses
First(S) == CHOOSE x \in S : \A y \in S : x <= y

\* The zones of the list a request of `size` bytes fits in, by their place
\* in the list
FittingZones(m, head, size) ==
    {i \in DOMAIN ZoneList(m, head) : Fits(m, ZoneList(m, head)[i], size) # {}}

BeforePlacement == alloc_walk(Machine(mem, pool), kalloc, last'.arg).pre

\* C10: when alloc places a request of rounded size s in a free chunk of
\* size c > s whose Header is at a, the Header at a becomes used with size s,
\* the Header at a + 8 + s is free with size c - s - 8, the pointer returned
\* is a + 8, and the placement changes no other Header (of memory, only these
\* two words and the zone word, which holds the refs count, differ).
C10_SplitOnPlacement ==
    [][(/\ Called("alloc")
        /\ last'.ret = "Ok"
        /\ last'.c > RoundUp(last'.arg))
       => LET s == RoundUp(last'.arg)
              c == last'.c
              a == last'.at
          IN /\ Load(BeforePlacement, a) = c
             /\ panic' = "none"
             /\ Load(mem', a) = HEADER_USED + s
             /\ Load(mem', a + HEADER_SIZE + s) = c - s - HEADER_SIZE
             /\ last'.ptr = a + HEADER_SIZE
             /\ \A x \in (DOMAIN mem' \cup DOMAIN BeforePlacement)
                            \ {a, a + HEADER_SIZE + s, PageOf(a)} :
                    Load(mem', x) = Load(BeforePlacement, x)]_vars

\* C11: when free(p) is called on a used chunk of size a whose following
\* chunk, in the same page, is free with size b, the Header at p - 8 becomes
\* free with size a + 8 + b and the absorbed Header word becomes 0; when the
\* following chunk is used, the Header at p - 8 becomes free with size a and
\* the following Header is unchanged.
C11_FreeMergesForward ==
    [][(/\ Called("free")
        /\ ~is_free(Load(mem, last'.arg - HEADER_SIZE))
        /\ ChunkEnd(mem, last'.arg - HEADER_SIZE)
                < PageOf(last'.arg - HEADER_SIZE) + PAGE_SIZE)
       => LET h == last'.arg - HEADER_SIZE
              a == chunk_size(Load(mem, h))
              n == ChunkEnd(mem, h)
              b == chunk_size(Load(mem, n))
          IN /\ is_free(Load(mem', h))
             /\ IF is_free(Load(mem, n))
                THEN /\ chunk_size(Load(mem', h)) = a + HEADER_SIZE + b
                     /\ Load(mem', n) = 0
                ELSE /\ chunk_size(Load(mem', h)) = a
                     /\ Load(mem', n) = Load(mem, n)]_vars

\* C12: on a freshly created Kalloc, alloc(4080) returns Ok(head + 16), leaves
\* exactly one Header in the page, used with size 4080, performs no split
\* (no word but the zone word and that Header is written), writes nothing
\* outside the page, and sets the refs of the zone to 1.
C12_MaximalRequestFillsFreshPage ==
    (calls = 1 /\ last.op = "alloc" /\ last.arg = MAX_CHUNK_SIZE)
        => /\ panic = "none"
           /\ last.ret = "Ok"
           /\ last.ptr = kalloc.head + ZONE_SIZE + HEADER_SIZE
           /\ Walk(mem, kalloc.head).hs = {kalloc.head + ZONE_SIZE}
           /\ Walk(mem, kalloc.head).a = kalloc.head + PAGE_SIZE
           /\ Load(mem, kalloc.head + ZONE_SIZE) = HEADER_USED + MAX_CHUNK_SIZE
           /\ DOMAIN mem \subseteq {kalloc.head, kalloc.head + ZONE_SIZE}
           /\ last.oobw = 0
           /\ RefsAt(mem, kalloc.head) = 1

\* C12, its case: the first call on the fresh Kalloc was alloc(4080)
C12_MaximalRequestMade ==
    /\ calls = 1
    /\ last.op = "alloc"
    /\ last.arg = MAX_CHUNK_SIZE
    /\ live = {kalloc.head + ZONE_SIZE + HEADER_SIZE}

\* C13: with alloc called for sizes 0..4080 and free called once for each
\* pointer alloc returned, the refs of every zone stay in 0..510, and neither
\* the panic 'Maximum zone allocation limit exceeded.' (increment_refs
\* failing with MaxRefs) nor the panic 'Negative zone refs count'
\* (decrement_refs failing with MinRefs) is reached.
C13_RefsStayInRange ==
    /\ panic \notin {"Maximum zone allocation limit exceeded.",
                     "Negative zone refs count"}
    /\ \A z \in Zones(mem, kalloc.head) :
            RefsAt(mem, z) \in 0..MAX_REFS

\* C14: for every pointer p alloc returns, p masked down to page alignment
\* is the base of the zone whose page holds the Header at p - 8, the zone
\* whose refs alloc incremented, so that free(p) decrements the refs of that
\* zone.
C14_PointerMasksToItsZone ==
    (last.op = "alloc" /\ last.ret = "Ok" /\ panic = "none")
        => /\ PageOf(last.ptr) = PageOf(last.ptr - HEADER_SIZE)
           /\ PageOf(last.ptr) = last.zone

C16_FreeChangesForwardOnly ==
    [][Called("free")
       => LET h == last'.arg - HEADER_SIZE
              z == PageOf(h)
          IN /\ NextAt(mem', z) = NextAt(mem, z)
             /\ \A x \in (DOMAIN mem \cup DOMAIN mem')
                            \ {h, ChunkEnd(mem, h), z} :
                    Load(mem', x) = Load(mem, x)]_vars

\* C16, its case: free has released a chunk that lies behind a free chunk
\* and before a free chunk; it absorbed the one behind it and left the Header
\* of the one before it as it was
C16_FreedBetweenFreeChunks ==
    /\ last.op = "free"
    /\ panic = "none"
    /\ \E b \in Walk(mem, kalloc.head).hs :
            /\ b < last.arg - HEADER_SIZE
            /\ ChunkEnd(mem, b) = last.arg - HEADER_SIZE
            /\ is_free(Load(mem, b))
            /\ is_free(Load(mem, last.arg - HEADER_SIZE))
            /\ ChunkEnd(mem, last.arg - HEADER_SIZE) = kalloc.head + PAGE_SIZE

\* C17: Kalloc has no synchronization of its own: while one hart is inside a
\* call, between two of its accesses to memory, another hart can begin an
\* alloc on the same Kalloc, and the hart inside the call can go on,
\* whatever the other does; so that a state is reached where the sequential
\* invariants are broken (see C17_SameAddressReturnedTwice).
C17_NoSynchronization ==
    panic = "none" =>
        \A h \in Harts : \A g \in Harts \ {h} :
            harts[g].pc # "idle"
                => /\ ENABLED (HartScan(g) \/ HartPlace(g) \/ HartRelease(g))
                   /\ (harts[h].pc = "idle" /\ CallsBegun(Harts) < CallLimit)
                        => ENABLED HartAlloc(h)

\* C17, its case: two harts each made one call, an alloc, no free was called,
\* and both calls returned Ok with the same data address; the refs of the
\* zone then differ from the number of pointers handed out
C17_SameAddressReturnedTwice ==
    /\ \A h \in Harts :
            /\ harts[h].pc = "idle"
            /\ harts[h].op = "alloc"
            /\ harts[h].res = "Ok"
            /\ harts[h].n = 1
    /\ \E h \in Harts : \E g \in Harts \ {h} : harts[h].ret = harts[g].ret
    /\ RefsAt(mem, kalloc.head) = 1

\* C18: every call of alloc or free a single hart makes on a heap reached
\* from Kalloc::new terminates: it returns or it panics.  The scan reaches
\* the page end, the zone walk of alloc ends at the 0 sentinel (no call ever
\* has a next zone to go to), and no page is asked for more than once.
C18_CallsTerminate ==
    /\ [](\A h \in Harts : harts[h].res # "NextZone")
    /\ \A h \in Harts :
            (harts[h].pc \notin {"idle", "parked"})
                ~> (harts[h].pc \in {"idle", "halted"})

\* C18, its case: an alloc that found no chunk has walked the Headers of
\* the page up to its end, then the zone list to its end, and has returned
C18_ScanReachedPageEnd ==
    /\ harts[1].pc = "idle"
    /\ harts[1].op = "alloc"
    /\ harts[1].res = "NullZone"
    /\ harts[1].curr >= kalloc.head + PAGE_SIZE

\* C19: during a call of alloc or free, Kalloc reads and writes only
\* addresses inside the pages of its zones: scan loads no Header from, and
\* zeroes no word at or behind, the page end, and free neither loads nor
\* zeroes the word behind a chunk that ends at the page boundary.
C19_AccessesInsideZones ==
    last.op \in {"alloc", "free"} => last.oob = 0 /\ last.oobw = 0

\* C20: when every pointer alloc returned has been freed once, the refs of
\* the head zone are 0, and a following alloc(4080) asks for no page and
\* returns Ok(head + 16): the scan coalesces the free chunks back into the
\* one chunk of 4080 bytes, in whatever order they were freed.
C20_AllFreedRestoresMaximalChunk ==
    [][(live = {} /\ panic = "none")
       => /\ RefsAt(mem, kalloc.head) = 0
          /\ (Called("alloc") /\ last'.arg = MAX_CHUNK_SIZE)
                => /\ panic' = "none"
                   /\ last'.ret = "Ok"
                   /\ last'.pallocs = 0
                   /\ last'.ptr = kalloc.head + ZONE_SIZE + HEADER_SIZE]_vars

=============================================================================
